---- MODULE Spec2Model ----
\* Access Package Resource Finder: the three POST endpoints of src/server.js
\* (/api/search, /api/resolveGroup, /api/resolveApplication) as a state machine
\* over in-flight HTTP requests and their outstanding directory-service calls.
EXTENDS Naturals, Sequences, FiniteSets, TLC

VARIABLES
    upstream,   \* the directory's access packages, unchanged during a run
    reqs,       \* the request slots of this run
    req,        \* req[r]: endpoint and JSON body of request r, once received
    pc,         \* pc[r]: where the handler of request r is suspended
    results,    \* the results array(s) of the search handler
    calls,      \* calls[r]: the upstream calls request r issued, with outcomes
    fetched,    \* fetched[r]: the value list the resolver query of r returned
    response    \* response[r]: the HTTP response sent for request r

vars == <<upstream, reqs, req, pc, results, calls, fetched, response>>

\* ------------------------------------------------------------------ bounds
\* Access packages in the upstream catalog.
MaxPkgs == 2
\* Resource-role-scopes held by the whole upstream snapshot.
MaxScopes == 2
\* Directory objects one resolver query returns.
MaxCands == 2
\* Requests in flight at once in the concurrent specification.
NumReqs == 2
\* Access packages in the catalog of the specifications that run all the
\* endpoints or several requests, and the scopes their snapshot holds.
SmallPkgs == 1
SmallScopes == 1

\* ------------------------------------------------------------- JS values
\* Origin identifiers are strings, kept as character sequences so that
\* equality, prefix and case are different relations.
G1 == <<"g", "1">>
G10 == <<"g", "1", "0">>
UpperG1 == <<"G", "1">>
EmptyString == <<>>

\* A JSON object is a record; an absent (undefined / null) property is a key
\* that is not in its DOMAIN.
Has(obj, key) == key \in DOMAIN obj

\* JavaScript truthiness of a property holding text: absent and "" are falsy.
Truthy(obj, key) == Has(obj, key) /\ obj[key] # ""

\* JavaScript truthiness of a property holding an identifier string.
TruthyId(obj, key) == Has(obj, key) /\ obj[key] # EmptyString

\* expr || 'N/A' on a string property.
OrNA(obj, key) == IF Truthy(obj, key) THEN obj[key] ELSE "N/A"

\* ------------------------------------------------------ upstream snapshot
\* Sample resource-role-scopes: a group; an application with the same originId,
\* an empty display name and no role; an entry without scope; the same group
\* resource again without display name and with an unnamed role; a SharePoint
\* site whose originId extends G1; a scope of an unrecognised origin system.
GroupScope ==
    [scope |-> [originId |-> G1, originSystem |-> "AadGroup", displayName |-> "Sales Group"],
     role |-> [displayName |-> "Member"]]
ApplicationScope ==
    [scope |-> [originId |-> G1, originSystem |-> "AadApplication", displayName |-> ""]]
RoleScopeSamples ==
    { GroupScope,
      ApplicationScope,
      [role |-> [displayName |-> "Owner"]],
      [scope |-> [originId |-> G1, originSystem |-> "AadGroup"],
       role |-> [displayName |-> ""]],
      [scope |-> [originId |-> G10, originSystem |-> "SharePointOnline", displayName |-> "Site"],
       role |-> [displayName |-> "Visitor"]],
      [scope |-> [originId |-> G1, originSystem |-> "AadUser", displayName |-> "User"],
       role |-> [displayName |-> "Member"]] }

\* Sequences over S of length exactly n.
SeqsOfLen(S, n) == [1..n -> S]

\* The resourceRoleScopes property of one package's record when it holds n
\* scopes: a list of n samples, or (n = 0) the empty list or no property at all.
ScopeLists(S, n) ==
    { [resourceRoleScopes |-> l] : l \in SeqsOfLen(S, n) }
        \cup (IF n = 0 THEN { <<>> } ELSE {})

RECURSIVE ScopeAssignments(_, _, _)
\* All ways to give n packages their scope collections, budget scopes in total.
ScopeAssignments(S, n, budget) ==
    IF n = 0 THEN { <<>> }
    ELSE UNION { { <<first>> \o rest : rest \in ScopeAssignments(S, n - 1, budget - k),
                                        first \in ScopeLists(S, k) } : k \in 0..budget }

\* The package record the directory returns for the i-th catalog entry.
PackageRecord(i, scopes) ==
    [id |-> i, displayName |-> <<"Access Package", i>>] @@ scopes

\* Upstream snapshots: catalogs of at most maxPkgs packages with scopes from S.
Snapshots(S, maxPkgs, budget) ==
    UNION { { [i \in 1..n |-> PackageRecord(i, a[i])] : a \in ScopeAssignments(S, n, budget) }
            : n \in 0..maxPkgs }

\* ------------------------------------------------------------ request bodies
SearchTypes == {"application", "group", "sharepoint", "user", ""}
SearchValues == {G1, G10, UpperG1, EmptyString}

\* Bodies of POST /api/search: each of the two fields present or not.
SearchBodies ==
    { [searchType |-> t, searchValue |-> v] : t \in SearchTypes, v \in SearchValues }
        \cup { [searchType |-> t] : t \in SearchTypes }
        \cup { [searchValue |-> v] : v \in SearchValues }
        \cup { <<>> }

\* ------------------------------------------------------------ upstream calls
CatalogCall == [api |-> "accessPackages", id |-> 0]
DetailsCall(i) == [api |-> "accessPackage", id |-> i]

Issue(log, targets) == log \o [k \in 1..Len(targets) |-> targets[k] @@ [outcome |-> "pending"]]

\* Positions of the calls of request r that have not returned yet.
Outstanding(r) == { k \in 1..Len(calls[r]) : calls[r][k].outcome = "pending" }

Settle(log, k, outcome) == [log EXCEPT ![k].outcome = outcome]

\* ------------------------------------------------------------ POST /api/search
\* Mutant: only searchType is validated.
SearchInvalidTypeOnly(body) == ~Truthy(body, "searchType")

\* if (!searchType || !searchValue)
SearchInvalid(body) == ~Truthy(body, "searchType") \/ ~TruthyId(body, "searchValue")

\* Mutant: the cases compare originId only, not originSystem.
IsMatchAnySystem(searchType, searchValue, roleScope) ==
    /\ searchType \in { "application", "group", "sharepoint" }
    /\ Has(roleScope, "scope")
    /\ roleScope.scope.originId = searchValue

\* Mutant: the default case falls back to matching by originId.
IsMatchDefaultById(searchType, searchValue, roleScope) ==
    /\ Has(roleScope, "scope")
    /\ roleScope.scope.originId = searchValue
    /\ \/ searchType \notin { "application", "group", "sharepoint" }
       \/ searchType = "application" /\ roleScope.scope.originSystem = "AadApplication"
       \/ searchType = "group" /\ roleScope.scope.originSystem = "AadGroup"
       \/ searchType = "sharepoint" /\ roleScope.scope.originSystem = "SharePointOnline"

\* The switch on searchType, with the three cases' conditions.
IsMatch(searchType, searchValue, roleScope) ==
    CASE searchType = "application" ->
            /\ Has(roleScope, "scope")
            /\ roleScope.scope.originId = searchValue
            /\ roleScope.scope.originSystem = "AadApplication"
      [] searchType = "group" ->
            /\ Has(roleScope, "scope")
            /\ roleScope.scope.originId = searchValue
            /\ roleScope.scope.originSystem = "AadGroup"
      [] searchType = "sharepoint" ->
            /\ Has(roleScope, "scope")
            /\ roleScope.scope.originId = searchValue
            /\ roleScope.scope.originSystem = "SharePointOnline"
      [] OTHER -> FALSE

\* The object pushed to results for a matching roleScope.
MatchRecord(packageDetails, roleScope) ==
    [accessPackageName |-> packageDetails.displayName,
     accessPackageId |-> packageDetails.id,
     resourceName |-> OrNA(roleScope.scope, "displayName"),
     resourceType |-> roleScope.scope.originSystem,
     resourceId |-> roleScope.scope.originId,
     roleName |-> IF Has(roleScope, "role") THEN OrNA(roleScope.role, "displayName")
                  ELSE "N/A"]

RECURSIVE ScanScopes(_, _, _, _)
\* for (const roleScope of packageDetails.resourceRoleScopes), from position j.
ScanScopes(packageDetails, j, searchType, searchValue) ==
    LET list == packageDetails.resourceRoleScopes IN
    IF j > Len(list) THEN <<>>
    ELSE (IF IsMatch(searchType, searchValue, list[j])
          THEN <<MatchRecord(packageDetails, list[j])>> ELSE <<>>)
         \o ScanScopes(packageDetails, j + 1, searchType, searchValue)

\* Mutant: a package's matches are added newest first.
ScanPackageReversed(packageDetails, searchType, searchValue) ==
    IF ~Has(packageDetails, "resourceRoleScopes") THEN <<>>
    ELSE LET found == ScanScopes(packageDetails, 1, searchType, searchValue)
         IN  [k \in 1..Len(found) |-> found[Len(found) + 1 - k]]

\* What one fetched package adds to results: nothing when the collection is
\* absent or empty, else its matching scopes in order.
ScanPackage(packageDetails, searchType, searchValue) ==
    IF ~Has(packageDetails, "resourceRoleScopes")
          \/ Len(packageDetails.resourceRoleScopes) = 0
    THEN <<>>
    ELSE ScanScopes(packageDetails, 1, searchType, searchValue)

\* Mutant: all detail fetches are issued together on entering the loop.
FetchAllAtOnce(i, n) == IF i = 0 THEN [k \in 1..n |-> DetailsCall(k)] ELSE <<>>

\* The for-await loop: the detail fetches issued once package i is done with
\* (i = 0: on entering the loop), for a catalog of n packages.
FetchAfter(i, n) == IF i < n THEN <<DetailsCall(i + 1)>> ELSE <<>>

\* Mutant: results is one array of the module, shared by all requests.
SharedAccumulator(r) == 1

\* const results = [] is local to the handler: one array per request.
Accumulator(r) == r

Respond(r, status, json) ==
    /\ response' = [response EXCEPT ![r] = [status |-> status, json |-> json]]
    /\ pc' = [pc EXCEPT ![r] = "responded"]

\* res.json({ results, searchType, searchValue })
SearchJson(r, res) ==
    [results |-> res, searchType |-> req[r].body.searchType,
     searchValue |-> req[r].body.searchValue]

\* The loop after package i of request r is done with, log being r's calls and
\* res its results by then: issue the next fetch, or respond when none is left.
Continue(r, i, log, res) ==
    LET next == FetchAfter(i, Len(upstream))
        after == Issue(log, next)
    IN  /\ calls' = [calls EXCEPT ![r] = after]
        /\ IF \E k \in 1..Len(after) : after[k].outcome = "pending"
           THEN /\ pc' = [pc EXCEPT ![r] = "awaitDetails"]
                /\ UNCHANGED response
           ELSE Respond(r, 200, SearchJson(r, res))

\* The handler up to its first await: validation, then the catalog fetch.
Search(r, body) ==
    /\ pc[r] = "idle"
    /\ req' = [req EXCEPT ![r] = [endpoint |-> "/api/search", body |-> body]]
    /\ IF SearchInvalid(body)
       THEN /\ Respond(r, 400, [error |-> "Missing searchType or searchValue"])
            /\ UNCHANGED <<results, calls>>
       ELSE /\ results' = [results EXCEPT ![Accumulator(r)] = <<>>]
            /\ calls' = [calls EXCEPT ![r] = Issue(calls[r], <<CatalogCall>>)]
            /\ pc' = [pc EXCEPT ![r] = "awaitCatalog"]
            /\ UNCHANGED response
    /\ UNCHANGED <<upstream, reqs, fetched>>

\* The catalog fetch returns: the loop starts.
CatalogOk(r) ==
    /\ pc[r] = "awaitCatalog"
    /\ \E k \in Outstanding(r) :
          Continue(r, 0, Settle(calls[r], k, "ok"), results[Accumulator(r)])
    /\ UNCHANGED <<upstream, reqs, req, results, fetched>>

\* Mutant: a failed catalog fetch is treated as an empty catalog.
CatalogFailAsEmpty(r) ==
    /\ pc[r] = "awaitCatalog"
    /\ \E k \in Outstanding(r) :
          calls' = [calls EXCEPT ![r] = Settle(calls[r], k, "fail")]
    /\ Respond(r, 200, SearchJson(r, results[Accumulator(r)]))
    /\ UNCHANGED <<upstream, reqs, req, results, fetched>>

\* The catalog fetch throws: the outer catch.
CatalogFail(r) ==
    /\ pc[r] = "awaitCatalog"
    /\ \E k \in Outstanding(r) :
          calls' = [calls EXCEPT ![r] = Settle(calls[r], k, "fail")]
    /\ Respond(r, 500, [error |-> "Failed to search access packages",
                        details |-> "upstream error"])
    /\ UNCHANGED <<upstream, reqs, req, results, fetched>>

\* A detail fetch returns: its scopes are scanned, then the loop goes on.
DetailsOk(r) ==
    /\ pc[r] = "awaitDetails"
    /\ \E k \in Outstanding(r) :
          LET packageDetails == upstream[calls[r][k].id]
              res == results[Accumulator(r)]
                       \o ScanPackage(packageDetails, req[r].body.searchType,
                                      req[r].body.searchValue)
          IN  /\ results' = [results EXCEPT ![Accumulator(r)] = res]
              /\ Continue(r, calls[r][k].id, Settle(calls[r], k, "ok"), res)
    /\ UNCHANGED <<upstream, reqs, req, fetched>>

\* Mutant: no inner try/catch, a failed detail fetch reaches the outer catch.
DetailsFailFatal(r) ==
    /\ pc[r] = "awaitDetails"
    /\ \E k \in Outstanding(r) :
          calls' = [calls EXCEPT ![r] = Settle(calls[r], k, "fail")]
    /\ Respond(r, 500, [error |-> "Failed to search access packages",
                        details |-> "upstream error"])
    /\ UNCHANGED <<upstream, reqs, req, results, fetched>>

\* A detail fetch throws: the inner catch logs and the loop goes on.
DetailsFail(r) ==
    /\ pc[r] = "awaitDetails"
    /\ \E k \in Outstanding(r) :
          Continue(r, calls[r][k].id, Settle(calls[r], k, "fail"),
                   results[Accumulator(r)])
    /\ UNCHANGED <<upstream, reqs, req, results, fetched>>

\* ------------------------------------------------------ POST /api/resolveGroup
GroupSamples ==
    { [id |-> "group-1", displayName |-> "Team Alpha"],
      [id |-> "group-2", displayName |-> "Team Alpha"],
      [id |-> "group-3", displayName |-> "Team Alpha"] }

ServicePrincipalSamples ==
    { [id |-> "sp-1", displayName |-> "Contoso App", appId |-> "app-1"],
      [id |-> "sp-2", displayName |-> "Contoso Portal", appId |-> "app-2"],
      [id |-> "sp-3", displayName |-> "Contoso", appId |-> "app-3"] }

\* The value lists a directory query can return: up to MaxCands distinct objects.
ValueLists(S) ==
    UNION { { l \in SeqsOfLen(S, n) : \A a, b \in 1..n : l[a] = l[b] => a = b }
            : n \in 0..MaxCands }

GroupBodies == { [groupName |-> "Team Alpha"], [groupName |-> ""], <<>> }
ApplicationBodies == { [applicationName |-> "Contoso"], [applicationName |-> ""], <<>> }

GroupsCall == [api |-> "groups", id |-> 0]
ServicePrincipalsCall == [api |-> "servicePrincipals", id |-> 0]

\* The response to a group query that returned value.
GroupResponse(value) ==
    IF Len(value) = 0
    THEN [status |-> 404, json |-> [error |-> "Group not found"]]
    ELSE [status |-> 200, json |-> [groupId |-> value[1].id,
                                   displayName |-> value[1].displayName]]

\* Mutant: the /groups query is issued before groupName is validated.
ResolveGroupQueryFirst(r, body) ==
    /\ pc[r] = "idle"
    /\ req' = [req EXCEPT ![r] = [endpoint |-> "/api/resolveGroup", body |-> body]]
    /\ calls' = [calls EXCEPT ![r] = Issue(calls[r], <<GroupsCall>>)]
    /\ IF ~Truthy(body, "groupName")
       THEN Respond(r, 400, [error |-> "Missing groupName"])
       ELSE /\ pc' = [pc EXCEPT ![r] = "awaitGroups"]
            /\ UNCHANGED response
    /\ UNCHANGED <<upstream, reqs, results, fetched>>

\* The handler up to its await: validation, then the /groups query.
ResolveGroup(r, body) ==
    /\ pc[r] = "idle"
    /\ req' = [req EXCEPT ![r] = [endpoint |-> "/api/resolveGroup", body |-> body]]
    /\ IF ~Truthy(body, "groupName")
       THEN /\ Respond(r, 400, [error |-> "Missing groupName"])
            /\ UNCHANGED calls
       ELSE /\ calls' = [calls EXCEPT ![r] = Issue(calls[r], <<GroupsCall>>)]
            /\ pc' = [pc EXCEPT ![r] = "awaitGroups"]
            /\ UNCHANGED response
    /\ UNCHANGED <<upstream, reqs, results, fetched>>

\* The /groups query returns value.
GroupsOk(r, value) ==
    /\ pc[r] = "awaitGroups"
    /\ \E k \in Outstanding(r) :
          calls' = [calls EXCEPT ![r] = Settle(calls[r], k, "ok")]
    /\ fetched' = [fetched EXCEPT ![r] = value]
    /\ Respond(r, GroupResponse(value).status, GroupResponse(value).json)
    /\ UNCHANGED <<upstream, reqs, req, results>>

\* The /groups query throws.
GroupsFail(r) ==
    /\ pc[r] = "awaitGroups"
    /\ \E k \in Outstanding(r) :
          calls' = [calls EXCEPT ![r] = Settle(calls[r], k, "fail")]
    /\ Respond(r, 500, [error |-> "Failed to resolve group",
                        details |-> "upstream error"])
    /\ UNCHANGED <<upstream, reqs, req, results, fetched>>

\* ------------------------------------------------ POST /api/resolveApplication
\* servicePrincipals.value.map(sp => ({ objectId, displayName, appId }))
Applications(value) ==
    [k \in 1..Len(value) |-> [objectId |-> value[k].id,
                              displayName |-> value[k].displayName,
                              appId |-> value[k].appId]]

\* Mutant: the first candidate is returned whenever there is one.
ApplicationResponseFirst(value) ==
    IF Len(value) = 0
    THEN [status |-> 404, json |-> [error |-> "Application not found"]]
    ELSE [status |-> 200, json |-> Applications(value)[1]]

\* The response to a service-principal query that returned value.
ApplicationResponse(value) ==
    IF Len(value) = 0
    THEN [status |-> 404, json |-> [error |-> "Application not found"]]
    ELSE IF Len(Applications(value)) = 1
    THEN [status |-> 200, json |-> Applications(value)[1]]
    ELSE [status |-> 200, json |-> [multiple |-> TRUE,
                                   applications |-> Applications(value)]]

\* The handler up to its await: validation, then the /servicePrincipals query.
ResolveApplication(r, body) ==
    /\ pc[r] = "idle"
    /\ req' = [req EXCEPT ![r] = [endpoint |-> "/api/resolveApplication", body |-> body]]
    /\ IF ~Truthy(body, "applicationName")
       THEN /\ Respond(r, 400, [error |-> "Missing applicationName"])
            /\ UNCHANGED calls
       ELSE /\ calls' = [calls EXCEPT ![r] = Issue(calls[r], <<ServicePrincipalsCall>>)]
            /\ pc' = [pc EXCEPT ![r] = "awaitServicePrincipals"]
            /\ UNCHANGED response
    /\ UNCHANGED <<upstream, reqs, results, fetched>>

\* The /servicePrincipals query returns value.
ServicePrincipalsOk(r, value) ==
    /\ pc[r] = "awaitServicePrincipals"
    /\ \E k \in Outstanding(r) :
          calls' = [calls EXCEPT ![r] = Settle(calls[r], k, "ok")]
    /\ fetched' = [fetched EXCEPT ![r] = value]
    /\ Respond(r, ApplicationResponse(value).status, ApplicationResponse(value).json)
    /\ UNCHANGED <<upstream, reqs, req, results>>

\* The /servicePrincipals query throws.
ServicePrincipalsFail(r) ==
    /\ pc[r] = "awaitServicePrincipals"
    /\ \E k \in Outstanding(r) :
          calls' = [calls EXCEPT ![r] = Settle(calls[r], k, "fail")]
    /\ Respond(r, 500, [error |-> "Failed to resolve application",
                        details |-> "upstream error"])
    /\ UNCHANGED <<upstream, reqs, req, results, fetched>>

\* ------------------------------------------------------------ specifications
ReqIds == 1..NumReqs

InitRequests(slots) ==
    /\ reqs = slots
    /\ req = [r \in ReqIds |-> [endpoint |-> "", body |-> <<>>]]
    /\ pc = [r \in ReqIds |-> "idle"]
    /\ results = [r \in ReqIds |-> <<>>]
    /\ calls = [r \in ReqIds |-> <<>>]
    /\ fetched = [r \in ReqIds |-> <<>>]
    /\ response = [r \in ReqIds |-> [status |-> 0, json |-> <<>>]]

\* One search request against any snapshot.
Init ==
    /\ upstream \in Snapshots(RoleScopeSamples, MaxPkgs, MaxScopes)
    /\ InitRequests({1})

Next ==
    \/ \E r \in reqs, body \in SearchBodies : Search(r, body)
    \/ \E r \in reqs : CatalogOk(r)
    \/ \E r \in reqs : CatalogFail(r)
    \/ \E r \in reqs : DetailsOk(r)
    \/ \E r \in reqs : DetailsFail(r)

Spec == Init /\ [][Next]_vars

\* One request to any of the three endpoints.
InitServer ==
    /\ upstream \in Snapshots(RoleScopeSamples, SmallPkgs, SmallScopes)
    /\ InitRequests({1})

NextServer ==
    \/ \E r \in reqs, body \in SearchBodies : Search(r, body)
    \/ \E r \in reqs : CatalogOk(r)
    \/ \E r \in reqs : CatalogFail(r)
    \/ \E r \in reqs : DetailsOk(r)
    \/ \E r \in reqs : DetailsFail(r)
    \/ \E r \in reqs, body \in GroupBodies : ResolveGroup(r, body)
    \/ \E r \in reqs, value \in ValueLists(GroupSamples) : GroupsOk(r, value)
    \/ \E r \in reqs : GroupsFail(r)
    \/ \E r \in reqs, body \in ApplicationBodies : ResolveApplication(r, body)
    \/ \E r \in reqs, value \in ValueLists(ServicePrincipalSamples) :
            ServicePrincipalsOk(r, value)
    \/ \E r \in reqs : ServicePrincipalsFail(r)

SpecServer == InitServer /\ [][NextServer]_vars

\* Several search requests interleaving at their awaits on one snapshot.
ConcurrentBodies ==
    { [searchType |-> "group", searchValue |-> G1],
      [searchType |-> "application", searchValue |-> G1] }

InitConcurrent ==
    /\ upstream \in Snapshots({ GroupScope, ApplicationScope }, SmallPkgs, SmallScopes)
    /\ InitRequests(ReqIds)

NextConcurrent ==
    \/ \E r \in reqs, body \in ConcurrentBodies : Search(r, body)
    \/ \E r \in reqs : CatalogOk(r)
    \/ \E r \in reqs : CatalogFail(r)
    \/ \E r \in reqs : DetailsOk(r)
    \/ \E r \in reqs : DetailsFail(r)

SpecConcurrent == InitConcurrent /\ [][NextConcurrent]_vars

\* ------------------------------------------------------------------ claims
IsSearch(r) == req[r].endpoint = "/api/search"
Responded(r) == pc[r] = "responded"
Body(r) == req[r].body

\* The calls of request r to api that ended with outcome.
CallsWith(r, api, outcome) ==
    { k \in 1..Len(calls[r]) : calls[r][k].api = api /\ calls[r][k].outcome = outcome }

CatalogFetched(r) == CallsWith(r, "accessPackages", "ok") # {}
CatalogFailed(r) == CallsWith(r, "accessPackages", "fail") # {}

\* The packages whose detail fetch succeeded, resp. failed, for request r.
FetchedPkgs(r) == { calls[r][k].id : k \in CallsWith(r, "accessPackage", "ok") }
FailedPkgs(r) == { calls[r][k].id : k \in CallsWith(r, "accessPackage", "fail") }

\* The scopes of package i of the snapshot (none for an absent collection).
ScopesOf(i) ==
    IF Has(upstream[i], "resourceRoleScopes") THEN upstream[i].resourceRoleScopes ELSE <<>>

\* The enum the data model maps each search type to.
OriginSystemOf ==
    [application |-> "AadApplication", group |-> "AadGroup", sharepoint |-> "SharePointOnline"]

\* The data model's exact-match criterion.
Matches(body, roleScope) ==
    /\ Has(roleScope, "scope")
    /\ roleScope.scope.originId = body.searchValue
    /\ body.searchType \in DOMAIN OriginSystemOf
    /\ roleScope.scope.originSystem = OriginSystemOf[body.searchType]

\* rec is the MatchRecord of scope j of package i.
IsRecordOf(rec, i, j) ==
    LET pkg == upstream[i]
        rs == ScopesOf(i)[j]
    IN  /\ Has(rs, "scope")
        /\ rec.accessPackageId = pkg.id
        /\ rec.accessPackageName = pkg.displayName
        /\ rec.resourceId = rs.scope.originId
        /\ rec.resourceType = rs.scope.originSystem
        /\ rec.resourceName = (IF Has(rs.scope, "displayName") /\ rs.scope.displayName # ""
                               THEN rs.scope.displayName ELSE "N/A")
        /\ rec.roleName = (IF Has(rs, "role") /\ Has(rs.role, "displayName")
                                  /\ rs.role.displayName # ""
                           THEN rs.role.displayName ELSE "N/A")

\* The (package, scope) pairs of the successfully fetched packages that match.
MatchingPairs(r) ==
    UNION { { <<i, j>> : j \in { m \in 1..Len(ScopesOf(i)) :
                                   Matches(Body(r), ScopesOf(i)[m]) } }
            : i \in FetchedPkgs(r) }

\* Upstream order of pairs: catalog order, then order within the package.
Before(p, q) == p[1] < q[1] \/ (p[1] = q[1] /\ p[2] < q[2])

\* The position of pair p among the matching pairs, in upstream order.
Rank(r, p) == 1 + Cardinality({ q \in MatchingPairs(r) : Before(q, p) })

Sent(r) == response[r].json.results

\* C1: when the catalog fetch succeeded, whatever set of detail fetches failed,
\* the request ends with 200, every package was fetched (none skipped after a
\* failure), every matching scope of every package that did not fail has its
\* record in the results, and no record belongs to a failed package.
C1_PartialFailureIsolation ==
    \A r \in reqs :
        (IsSearch(r) /\ Responded(r) /\ CatalogFetched(r)) =>
            /\ response[r].status = 200
            /\ FetchedPkgs(r) \cup FailedPkgs(r) = 1..Len(upstream)
            /\ \A i \in (1..Len(upstream)) \ FailedPkgs(r) :
                  \A j \in 1..Len(ScopesOf(i)) :
                      Matches(Body(r), ScopesOf(i)[j]) =>
                          \E k \in 1..Len(Sent(r)) : IsRecordOf(Sent(r)[k], i, j)
            /\ \A k \in 1..Len(Sent(r)) : Sent(r)[k].accessPackageId \notin FailedPkgs(r)

\* A package failed and a later package still put its record in a 200 response.
C1_Witness ==
    \E r \in reqs :
        /\ IsSearch(r) /\ Responded(r) /\ response[r].status = 200
        /\ \E i \in FailedPkgs(r) : \E k \in 1..Len(Sent(r)) : Sent(r)[k].accessPackageId > i

\* C2: for every scope of every successfully fetched package, the results
\* hold its record if and only if the scope is present, its originId equals
\* searchValue exactly and its originSystem is the one mapped from searchType.
C2_ExactMatch ==
    \A r \in reqs :
        (IsSearch(r) /\ pc[r] \in { "awaitDetails", "responded" } /\ CatalogFetched(r)) =>
            \A i \in FetchedPkgs(r) : \A j \in 1..Len(ScopesOf(i)) :
                (\E k \in 1..Len(results[r]) : IsRecordOf(results[r][k], i, j))
                    <=> Matches(Body(r), ScopesOf(i)[j])

\* One fetched package holds a matching scope and a scope with the searched
\* originId but another origin system, which is left out.
C2_Witness ==
    \E r \in reqs :
        /\ IsSearch(r) /\ Responded(r) /\ response[r].status = 200
        /\ \E i \in FetchedPkgs(r) : \E j, m \in 1..Len(ScopesOf(i)) :
              /\ Matches(Body(r), ScopesOf(i)[j])
              /\ Has(ScopesOf(i)[m], "scope")
              /\ ScopesOf(i)[m].scope.originId = Body(r).searchValue
              /\ ~Matches(Body(r), ScopesOf(i)[m])
        /\ Len(Sent(r)) = 1

KnownTypes == { "application", "group", "sharepoint" }

\* C3 as stated: every searchType outside the three known ones ends in a
\* success response with an empty result list, whatever else the request holds.
C3_Original ==
    \A r \in reqs :
        (IsSearch(r) /\ Responded(r) /\ Has(Body(r), "searchType")
            /\ Body(r).searchType \notin KnownTypes) =>
            /\ response[r].status = 200
            /\ Sent(r) = <<>>

\* C3 amended: a non-empty searchType outside the three known ones, sent with a
\* non-empty searchValue, ends in 200 with an empty result list whenever the
\* catalog fetch succeeded, whatever the catalog contains and whichever detail
\* fetches failed.
C3_UnknownTypeEmpty ==
    \A r \in reqs :
        (IsSearch(r) /\ Responded(r)
            /\ Has(Body(r), "searchType") /\ Body(r).searchType # ""
            /\ Has(Body(r), "searchValue") /\ Body(r).searchValue # EmptyString
            /\ Body(r).searchType \notin KnownTypes
            /\ CatalogFetched(r)) =>
            /\ response[r].status = 200
            /\ Sent(r) = <<>>

\* An unknown type searched a fetched package that holds the searched originId.
C3_Witness ==
    \E r \in reqs :
        /\ IsSearch(r) /\ Responded(r) /\ response[r].status = 200
        /\ Body(r).searchType \notin KnownTypes
        /\ \E i \in FetchedPkgs(r) : \E j \in 1..Len(ScopesOf(i)) :
              /\ Has(ScopesOf(i)[j], "scope")
              /\ ScopesOf(i)[j].scope.originId = Body(r).searchValue

\* C4: a search request whose body lacks searchType or searchValue is
\* answered 400 and has issued no directory-service call.
C4_MissingFieldNoCall ==
    \A r \in reqs :
        (IsSearch(r) /\ (~Has(Body(r), "searchType") \/ ~Has(Body(r), "searchValue"))) =>
            /\ Responded(r)
            /\ response[r].status = 400
            /\ calls[r] = <<>>

\* The body {} was answered.
C4_Witness ==
    \E r \in reqs : IsSearch(r) /\ Body(r) = <<>> /\ Responded(r)

\* C5: once the catalog fetch has failed the request is answered 500 with
\* error and details and without results, and the failed catalog fetch is the
\* only upstream call the request ever issues (no detail fetch, no retry).
C5_CatalogFailureFatal ==
    \A r \in reqs :
        (IsSearch(r) /\ CatalogFailed(r)) =>
            /\ Responded(r)
            /\ response[r].status = 500
            /\ DOMAIN response[r].json = { "error", "details" }
            /\ Len(calls[r]) = 1

\* The catalog fetch of a non-empty catalog failed.
C5_Witness ==
    \E r \in reqs : IsSearch(r) /\ CatalogFailed(r) /\ Len(upstream) > 0

\* C6: the results hold exactly one record per matching (package, scope) pair
\* of the successfully fetched packages, in catalog order and, within a
\* package, in the order of its scope collection; this holds of the array at
\* every await and of the list sent.
C6_ShapeAndOrder ==
    \A r \in reqs :
        (IsSearch(r) /\ CatalogFetched(r)) =>
            /\ Len(results[r]) = Cardinality(MatchingPairs(r))
            /\ \A p \in MatchingPairs(r) : IsRecordOf(results[r][Rank(r, p)], p[1], p[2])
            /\ (Responded(r) => response[r].status = 200 /\ Sent(r) = results[r])

\* Two different records of one package were sent, and a package with an
\* absent or empty collection was fetched.
C6_Witness ==
    \E r \in reqs :
        /\ IsSearch(r) /\ Responded(r) /\ response[r].status = 200
        /\ Len(Sent(r)) = 2
        /\ Sent(r)[1] # Sent(r)[2]
        /\ Sent(r)[1].accessPackageId = Sent(r)[2].accessPackageId
        /\ \E i \in FetchedPkgs(r) : Len(ScopesOf(i)) = 0

\* The targets of the calls request r issued, in issue order.
Issued(r) == [k \in 1..Len(calls[r]) |-> [api |-> calls[r][k].api, id |-> calls[r][k].id]]

\* The calls of a full scan: the catalog, then each package once, in order.
FullScan ==
    [k \in 1..(1 + Len(upstream)) |-> IF k = 1 THEN CatalogCall ELSE DetailsCall(k - 1)]

\* C9: a search request has at most one upstream call outstanding; its calls
\* are the catalog fetch followed by the detail fetches in catalog order, each
\* issued once and only after all earlier calls returned; a detail fetch is
\* issued only after the catalog returned; a scan that ends in 200 made 1 + N calls.
C9_SequentialFanOut ==
    \A r \in reqs :
        IsSearch(r) =>
            /\ Cardinality(Outstanding(r)) <= 1
            /\ Len(calls[r]) <= Len(FullScan)
            /\ Issued(r) = SubSeq(FullScan, 1, Len(calls[r]))
            /\ \A k \in 1..Len(calls[r]) : k < Len(calls[r]) => calls[r][k].outcome # "pending"
            /\ (Len(calls[r]) > 1 => calls[r][1].outcome = "ok")
            /\ (Responded(r) /\ response[r].status = 200 => Len(calls[r]) = 1 + Len(upstream))

\* A scan of MaxPkgs packages is at its last detail fetch.
C9_Witness ==
    \E r \in reqs :
        /\ IsSearch(r) /\ pc[r] = "awaitDetails"
        /\ Len(upstream) >= 2
        /\ Len(calls[r]) = 1 + Len(upstream)

IsResolveApplication(r) == req[r].endpoint = "/api/resolveApplication"
IsResolver(r) == req[r].endpoint \in { "/api/resolveGroup", "/api/resolveApplication" }

\* The {objectId, displayName, appId} record of a service principal.
CandidateOf(sp) == [objectId |-> sp.id, displayName |-> sp.displayName, appId |-> sp.appId]

\* C7: when the service-principal query succeeded, no candidate gives 404,
\* one candidate gives 200 with that candidate's record and no multiple flag,
\* and several give 200 with multiple set and every candidate in upstream order.
C7_ResolverCardinality ==
    \A r \in reqs :
        (IsResolveApplication(r) /\ CallsWith(r, "servicePrincipals", "ok") # {}) =>
            /\ Responded(r)
            /\ (Len(fetched[r]) = 0 => response[r].status = 404)
            /\ (Len(fetched[r]) = 1 =>
                  /\ response[r].status = 200
                  /\ response[r].json = CandidateOf(fetched[r][1]))
            /\ (Len(fetched[r]) >= 2 =>
                  /\ response[r].status = 200
                  /\ DOMAIN response[r].json = { "multiple", "applications" }
                  /\ response[r].json.multiple = TRUE
                  /\ Len(response[r].json.applications) = Len(fetched[r])
                  /\ \A k \in 1..Len(fetched[r]) :
                        response[r].json.applications[k] = CandidateOf(fetched[r][k]))

\* The query returned several service principals.
C7_Witness ==
    \E r \in reqs :
        IsResolveApplication(r) /\ Responded(r) /\ Len(fetched[r]) >= 2

\* C8 as stated: every 400 and every 404 response is produced with no
\* upstream call having been issued for the request.
C8_Original ==
    \A r \in reqs :
        (Responded(r) /\ response[r].status \in { 400, 404 }) => calls[r] = <<>>

\* C8 amended: in every endpoint a 400 is produced before any upstream call
\* is issued; a 404 comes from a resolver only, after the request's single
\* upstream query returned successfully with an empty list.
C8_ErrorOrder ==
    \A r \in reqs :
        /\ (Responded(r) /\ response[r].status = 400) => calls[r] = <<>>
        /\ (Responded(r) /\ response[r].status = 404) =>
              /\ IsResolver(r)
              /\ Len(calls[r]) = 1
              /\ calls[r][1].outcome = "ok"
              /\ fetched[r] = <<>>

\* A resolver answered 404.
C8_Witness ==
    \E r \in reqs : IsResolver(r) /\ Responded(r) /\ response[r].status = 404

RECURSIVE AloneResults(_, _)
\* The results request r collects from packages i.. of the snapshot when it
\* runs alone and its detail fetches end as they did.
AloneResults(r, i) ==
    IF i > Len(upstream) THEN <<>>
    ELSE (IF i \in FetchedPkgs(r)
          THEN ScanPackage(upstream[i], Body(r).searchType, Body(r).searchValue)
          ELSE <<>>) \o AloneResults(r, i + 1)

\* C10: whatever the interleaving with other requests, the response of a
\* search request is the one it produces alone on the same snapshot with the
\* same fetch outcomes: its own records in order, its own searchType and
\* searchValue.
C10_RequestIsolation ==
    \A r \in reqs :
        (IsSearch(r) /\ Responded(r) /\ CatalogFetched(r)) =>
            /\ response[r].status = 200
            /\ response[r].json = [results |-> AloneResults(r, 1),
                                  searchType |-> Body(r).searchType,
                                  searchValue |-> Body(r).searchValue]

\* Two requests with different criteria on one snapshot were both answered,
\* one of them with a record the other does not hold.
C10_Witness ==
    \E r, q \in reqs :
        /\ r # q
        /\ IsSearch(r) /\ Responded(r) /\ response[r].status = 200
        /\ IsSearch(q) /\ Responded(q) /\ response[q].status = 200
        /\ Body(r) # Body(q)
        /\ Sent(r) # <<>>
        /\ Sent(q) = <<>>

====
